---- MODULE Spec2Model ----
(***************************************************************************)
(* Model of snake-arena.  The local match runner (src/lib/local-runner.js: *)
(* startServer, runLocalGame and parseResult) with the Node.js event loop  *)
(* made explicit (events, timers, promise continuations); what the test    *)
(* command records for a game (src/commands/test.js); and the loop of the  *)
(* submit command that polls the backend for the job of a submission       *)
(* (src/unnamed/part_002, src/lib/api.js), with the checks and the         *)
(* submission request that come before it.                                 *)
(* The loop of local games of the test command is also modelled with each  *)
(* game taken by the way it settles, and the decision-server wrapper       *)
(* (src/templates/_server_wrapper.js) one request at a time.               *)
(***************************************************************************)
EXTENDS Integers, Sequences, FiniteSets, TLC

VARIABLES
    pc,          \* position of runLocalGame's body
    now,         \* wall clock, in seconds since runLocalGame was called
    crashed,     \* an exception escaped an event callback: the Node process died
    tmpDir,      \* the directory made by fs.mkdtempSync
    proc,        \* per side: the OS state of the spawned decision server
    started,     \* per side: startServer's closure variable `started`
    srvPromise,  \* per side: the promise startServer returned
    srvTimer,    \* per side: startServer's setTimeout
    srvKilled,   \* per side: how many times proc.kill() was called
    srvFirst,    \* per side: which of marker, stderr output and timer expiry came first
    procVar,     \* per side: whether userProc / oppProc was assigned
    game,        \* OS state of the battlesnake process
    gamePromise, \* the promise runLocalGame awaits for the game
    gameTimer,   \* runLocalGame's setTimeout for the game
    gameKilled,  \* how many times game.kill() was called
    gameFirst,   \* which of the game's 'close' event and its timer came first
    closeArgs,   \* what the 'close' callback saw: exit code, stderr, replay file
    completion,  \* how runLocalGame's body completes: a value to return or an error to throw
    teardownCount, \* how many times the finally block ran
    pInput,      \* parseResult harness: the replay file and exit code given
    pOutput,     \* parseResult harness: what the callback did with them
    pollPc,      \* submit: position of the poll loop
    polls,       \* submit: the loop's counter `polls`
    lastMatchCount, \* submit: the loop's counter `lastMatchCount`
    job,         \* submit: what getStatus gave in the current iteration
    queries,     \* submit: how many times getStatus was called
    out,         \* submit: the match lines and the final result written so far
    pollExit,    \* submit: the fault the command ended with, and its message
    emittedThisPoll, \* submit: how many match lines the current iteration wrote
    lastSnapshot,    \* submit: the matches of the latest job snapshot received
    seenJob,     \* submit: a job snapshot was received
    grewOnly,    \* submit: every job snapshot so far extended the one before it
    onlyNotFound,     \* submit: every reply so far was "Job not found"
    prevOnlyNotFound, \* submit: onlyNotFound before the latest reply
    onlyFailed,  \* submit: every status query so far failed
    prevOnlyFailed,   \* submit: onlyFailed before the latest reply
    onlyDefault, \* submit: every reply so far was the one of the default backend
    subPc,       \* submit: position of the command before the poll loop
    subArgs,     \* submit: the strategy file and flags the command was given
    requests,    \* submit: how many times submitStrategy was called
    wire,        \* submit: the HTTP response the backend sent to the submission
    response,    \* submit: what submitStrategy gave
    parentFile,  \* submit: the lineage file .snake-arena-parent.json
    testPc,      \* test: position of the loop of local games
    results,     \* test: the array `results`
    testExit,    \* test: the exit status of the command, once it has ended
    wReq,        \* server wrapper: the request being handled
    wRes         \* server wrapper: the reply written

runnerVars == <<pc, now, crashed, tmpDir, proc, started, srvPromise, srvTimer,
                srvKilled, srvFirst, procVar, game, gamePromise, gameTimer,
                gameKilled, gameFirst, closeArgs, completion, teardownCount>>
parseVars == <<pInput, pOutput>>
pollVars == <<pollPc, polls, lastMatchCount, job, queries, out, pollExit,
              emittedThisPoll, lastSnapshot, seenJob, grewOnly, onlyNotFound,
              prevOnlyNotFound, onlyFailed, prevOnlyFailed, onlyDefault>>
submitVars == <<subPc, subArgs, requests, wire, response>>
testVars == <<testPc, results, testExit>>
wrapVars == <<wReq, wRes>>
fileVars == <<parentFile>>
restVars == <<parseVars, pollVars, submitVars, testVars, wrapVars, fileVars>>
nonPollVars == <<runnerVars, parseVars, submitVars, testVars, wrapVars>>
vars == <<runnerVars, parseVars, pollVars, submitVars, testVars, wrapVars, fileVars>>

----------------------------------------------------------------------------
(* Program constants, in seconds.                                          *)
StartTimeout == 5
GameTimeout == 30

(* Bound of the model: the longest replay file, in lines.                  *)
MaxLines == 3

Sides == {"user", "opp"}

----------------------------------------------------------------------------
(* JavaScript values that occur in a replay record.                        *)
Undef == [t |-> "undefined", n |-> 0, s |-> ""]
Num(n) == [t |-> "number", n |-> n, s |-> ""]
Str(s) == [t |-> "string", n |-> 0, s |-> s]
Bool(b) == [t |-> "boolean", n |-> IF b THEN 1 ELSE 0, s |-> ""]

Truthy(v) ==
    CASE v.t = "undefined" -> FALSE
      [] v.t = "number" -> v.n # 0
      [] v.t = "string" -> v.s # ""
      [] v.t = "boolean" -> v.n = 1

\* JavaScript's a || b
Or(a, b) == IF Truthy(a) THEN a ELSE b

----------------------------------------------------------------------------
(* Lines of the replay file.  A line is blank, not JSON, the JSON value    *)
(* null, or a JSON object of which only the three fields the runner reads  *)
(* are kept.                                                               *)
Line(kind, winnerName, isDraw, turn) ==
    [kind |-> kind, winnerName |-> winnerName, isDraw |-> isDraw, turn |-> turn]
Blank == Line("blank", Undef, Undef, Undef)
Invalid == Line("invalid", Undef, Undef, Undef)
Null == Line("null", Undef, Undef, Undef)
Obj(winnerName, isDraw, turn) == Line("object", winnerName, isDraw, turn)

\* JSON.parse(line): throws a SyntaxError on a blank or malformed line
JSONparse(line) ==
    IF line.kind \in {"blank", "invalid"}
    THEN [threw |-> TRUE, value |-> line]
    ELSE [threw |-> FALSE, value |-> line]

\* reading a property of a parsed value: a TypeError on null
PropThrows(value) == value.kind = "null"

RECURSIVE DropLeadingBlank(_)
DropLeadingBlank(ls) ==
    IF ls # <<>> /\ Head(ls).kind = "blank" THEN DropLeadingBlank(Tail(ls)) ELSE ls

RECURSIVE DropTrailingBlank(_)
DropTrailingBlank(ls) ==
    IF ls # <<>> /\ ls[Len(ls)].kind = "blank"
    THEN DropTrailingBlank(SubSeq(ls, 1, Len(ls) - 1))
    ELSE ls

\* content.trim().split("\n"): surrounding blank lines go, and an empty
\* string still splits into one (empty) line
TrimSplit(content) ==
    LET ls == DropTrailingBlank(DropLeadingBlank(content))
    IN IF ls = <<>> THEN <<Blank>> ELSE ls

MissingFile == [exists |-> FALSE, content |-> <<>>]
File(content) == [exists |-> TRUE, content |-> content]

----------------------------------------------------------------------------
(* parseResult                                                             *)
Returned(winner, turns, error, winnerName, isDraw) ==
    [threw |-> FALSE, winner |-> winner, turns |-> turns, error |-> error,
     winnerName |-> winnerName, isDraw |-> isDraw]
Thrown == [threw |-> TRUE, winner |-> "", turns |-> Undef, error |-> "",
           winnerName |-> Undef, isDraw |-> Undef]

\* totalTurns declared without its initial 0
totalTurnsUninitialised(line) ==
    LET lastTurn == JSONparse(line)
    IN IF lastTurn.threw \/ PropThrows(lastTurn.value)
       THEN Undef
       ELSE Or(lastTurn.value.turn, Num(0))

\* lines 136-140: the turn of the second-to-last line, 0 when it cannot be read
totalTurns(line) ==
    LET lastTurn == JSONparse(line)
    IN IF lastTurn.threw \/ PropThrows(lastTurn.value)
       THEN Num(0)
       ELSE Or(lastTurn.value.turn, Num(0))

\* the winner decided from winnerName alone
winnerOfIgnoringDraw(isDraw, winnerName) ==
    IF winnerName = Str("you") THEN "you" ELSE "opponent"

\* line 143
winnerOf(isDraw, winnerName) ==
    IF Truthy(isDraw) THEN "draw"
    ELSE IF winnerName = Str("you") THEN "you" ELSE "opponent"

\* parseResult without its lenient first return
parseResultMissingThrows(file) ==
    IF ~file.exists
    THEN Thrown
    ELSE LET lines == TrimSplit(file.content)
         IN IF Len(lines) < 2
            THEN Returned("draw", Num(0), "Empty output", Undef, Undef)
            ELSE LET summary == JSONparse(lines[Len(lines)])
                 IN IF summary.threw \/ PropThrows(summary.value)
                    THEN Thrown
                    ELSE LET winnerName == Or(summary.value.winnerName, Str(""))
                             isDraw == Or(summary.value.isDraw, Bool(FALSE))
                         IN Returned(winnerOf(isDraw, winnerName),
                                     totalTurns(lines[Len(lines) - 1]),
                                     "", winnerName, isDraw)

parseResult(file) ==
    IF ~file.exists
    THEN Returned("draw", Num(0), "No output", Undef, Undef)
    ELSE LET lines == TrimSplit(file.content)
         IN IF Len(lines) < 2
            THEN Returned("draw", Num(0), "Empty output", Undef, Undef)
            ELSE LET summary == JSONparse(lines[Len(lines)])
                 IN IF summary.threw \/ PropThrows(summary.value)
                    THEN Thrown
                    ELSE LET winnerName == Or(summary.value.winnerName, Str(""))
                             isDraw == Or(summary.value.isDraw, Bool(FALSE))
                         IN Returned(winnerOf(isDraw, winnerName),
                                     totalTurns(lines[Len(lines) - 1]),
                                     "", winnerName, isDraw)

----------------------------------------------------------------------------
(* Errors and promises                                                     *)
Err(name, detail) == [name |-> name, detail |-> detail]
NoErr == Err("", "")
NoValue == Returned("", Undef, "", Undef, Undef)

Promise(st, value, error) == [st |-> st, value |-> value, error |-> error]
NoPromise == Promise("none", NoValue, NoErr)
Pending == Promise("pending", NoValue, NoErr)
Resolved(v) == Promise("resolved", v, NoErr)
Rejected(e) == Promise("rejected", NoValue, e)

\* a promise that every later resolve or reject settles anew
SettleLast(p, q) == q

\* resolve / reject act on a pending promise only
Settle(p, q) == IF p.st = "pending" THEN q ELSE p

\* the exit code null of a process ended by a signal
CodeNull == -1
ExitCodes == {0, 1, CodeNull}
StderrTexts == {"", "panic"}

\* the 'close' callback failing on every non-zero exit code
gameOnCloseByCode(code, stderr, file) ==
    IF code # 0
    THEN [kind |-> "reject", value |-> NoValue, error |-> Err("Game failed", stderr)]
    ELSE LET r == parseResult(file)
         IN IF r.threw
            THEN [kind |-> "throw", value |-> NoValue, error |-> NoErr]
            ELSE [kind |-> "resolve", value |-> r, error |-> NoErr]

\* the 'close' callback of the game, lines 95-101
gameOnClose(code, stderr, file) ==
    IF code # 0 /\ ~file.exists
    THEN [kind |-> "reject", value |-> NoValue, error |-> Err("Game failed", stderr)]
    ELSE LET r == parseResult(file)
         IN IF r.threw
            THEN [kind |-> "throw", value |-> NoValue, error |-> NoErr]
            ELSE [kind |-> "resolve", value |-> r, error |-> NoErr]

----------------------------------------------------------------------------
(* The replay files the game is let to leave behind in a run of            *)
(* runLocalGame: none, an empty one, a single line, and two-line replays   *)
(* with a readable or unreadable turn line and summary.                    *)
TurnLine(n) == Obj(Undef, Undef, Num(n))
Summary(winnerName, isDraw) == Obj(winnerName, isDraw, Undef)
RunnerFiles ==
    { MissingFile,
      File(<<>>),
      File(<<Summary(Str("you"), Bool(FALSE))>>),
      File(<<TurnLine(42), Summary(Str("you"), Bool(FALSE))>>),
      File(<<TurnLine(42), Summary(Str(""), Bool(TRUE))>>),
      File(<<Invalid, Summary(Str("opponent"), Bool(FALSE))>>),
      File(<<TurnLine(42), Invalid>>) }

NoClose == [seen |-> FALSE, code |-> 0, stderr |-> "", file |-> MissingFile]
NoCompletion == [kind |-> "none", value |-> NoValue, error |-> NoErr]
Timer(st, at) == [st |-> st, at |-> at]

----------------------------------------------------------------------------
(* The event loop.  A continuation of runLocalGame that is ready to run    *)
(* (a microtask) runs before the next event or timer callback.             *)
\* Promise.any in place of Promise.all
SomeResolved == \E s \in Sides : srvPromise[s].st = "resolved"
AllResolved == \A s \in Sides : srvPromise[s].st = "resolved"
AnyRejected == \E s \in Sides : srvPromise[s].st = "rejected"

MicrotaskPending ==
    \/ pc = "awaitServers" /\ (AllResolved \/ AnyRejected)
    \/ pc = "awaitGame" /\ gamePromise.st # "pending"

\* the JavaScript thread is free to take the next event
Idle ==
    /\ ~crashed
    /\ pc \in {"awaitServers", "awaitGame", "done"}
    /\ ~MicrotaskPending

TimerDue(t) == t.st = "armed" /\ now >= t.at
AnyTimerArmed == gameTimer.st = "armed" \/ \E s \in Sides : srvTimer[s].st = "armed"
AnyTimerDue == TimerDue(gameTimer) \/ \E s \in Sides : TimerDue(srvTimer[s])

----------------------------------------------------------------------------
(* runLocalGame, lines 49-80: the synchronous start                        *)
Mkdtemp ==
    /\ pc = "start" /\ ~crashed
    /\ tmpDir' = "exists"
    /\ pc' = "spawnUser"
    /\ UNCHANGED <<now, crashed, proc, started, srvPromise, srvTimer, srvKilled,
                   procVar, game, gamePromise, gameTimer, gameKilled, gameFirst,
                   closeArgs, completion, teardownCount, srvFirst, restVars>>

\* startServer, lines 11-17 and 33-38: spawn, and arm the 5 s timer
startServer(s) ==
    /\ ~crashed
    /\ \/ s = "user" /\ pc = "spawnUser" /\ pc' = "spawnOpp"
       \/ s = "opp" /\ pc = "spawnOpp" /\ pc' = "awaitServers"
    /\ proc' = [proc EXCEPT ![s] = "running"]
    /\ started' = [started EXCEPT ![s] = FALSE]
    /\ srvPromise' = [srvPromise EXCEPT ![s] = Pending]
    /\ srvTimer' = [srvTimer EXCEPT ![s] = Timer("armed", now + StartTimeout)]
    /\ UNCHANGED <<now, crashed, tmpDir, srvKilled, procVar, game, gamePromise,
                   gameTimer, gameKilled, gameFirst, closeArgs, completion,
                   teardownCount, srvFirst, restVars>>

\* startServer, lines 19-24: a chunk of the server's standard output
StdoutData(s, marker) ==
    /\ Idle /\ proc[s] = "running"
    /\ IF ~started[s] /\ marker
       THEN /\ started' = [started EXCEPT ![s] = TRUE]
            /\ srvPromise' = [srvPromise EXCEPT ![s] = Settle(@, Resolved(NoValue))]
       ELSE UNCHANGED <<started, srvPromise>>
    /\ srvFirst' = [srvFirst EXCEPT
           ![s] = IF @ = "none" /\ marker THEN "marker" ELSE @]
    /\ UNCHANGED <<pc, now, crashed, tmpDir, proc, srvTimer, srvKilled, procVar,
                   game, gamePromise, gameTimer, gameKilled, gameFirst, closeArgs,
                   completion, teardownCount, restVars>>

\* startServer, lines 26-30: a chunk of the server's standard error
StderrData(s, text) ==
    /\ Idle /\ proc[s] = "running"
    /\ IF ~started[s]
       THEN srvPromise' = [srvPromise EXCEPT
                ![s] = Settle(@, Rejected(Err("Server failed", text)))]
       ELSE UNCHANGED srvPromise
    /\ srvFirst' = [srvFirst EXCEPT ![s] = IF @ = "none" THEN "stderr" ELSE @]
    /\ UNCHANGED <<pc, now, crashed, tmpDir, proc, started, srvTimer, srvKilled,
                   procVar, game, gamePromise, gameTimer, gameKilled, gameFirst,
                   closeArgs, completion, teardownCount, restVars>>

\* the 5 s timer rejecting without proc.kill()
SrvTimerFireNoKill(s) ==
    /\ Idle /\ TimerDue(srvTimer[s])
    /\ srvTimer' = [srvTimer EXCEPT ![s] = Timer("fired", @.at)]
    /\ IF ~started[s]
       THEN srvPromise' = [srvPromise EXCEPT
                ![s] = Settle(@, Rejected(Err("Server start timed out", "")))]
       ELSE UNCHANGED srvPromise
    /\ srvFirst' = [srvFirst EXCEPT ![s] = IF @ = "none" THEN "timer" ELSE @]
    /\ UNCHANGED <<pc, now, crashed, tmpDir, proc, started, srvKilled, procVar,
                   game, gamePromise, gameTimer, gameKilled, gameFirst, closeArgs,
                   completion, teardownCount, restVars>>

\* startServer, lines 33-38: the 5 s timer expires
SrvTimerFire(s) ==
    /\ Idle /\ TimerDue(srvTimer[s])
    /\ srvTimer' = [srvTimer EXCEPT ![s] = Timer("fired", @.at)]
    /\ IF ~started[s]
       THEN /\ srvKilled' = [srvKilled EXCEPT ![s] = @ + 1]
            /\ srvPromise' = [srvPromise EXCEPT
                   ![s] = Settle(@, Rejected(Err("Server start timed out", "")))]
       ELSE UNCHANGED <<srvKilled, srvPromise>>
    /\ srvFirst' = [srvFirst EXCEPT ![s] = IF @ = "none" THEN "timer" ELSE @]
    /\ UNCHANGED <<pc, now, crashed, tmpDir, proc, started, procVar, game,
                   gamePromise, gameTimer, gameKilled, gameFirst, closeArgs,
                   completion, teardownCount, restVars>>

\* a server process ends, of its own accord or after a signal; nothing in
\* startServer listens for it
ProcExit(s) ==
    /\ Idle /\ proc[s] = "running"
    /\ proc' = [proc EXCEPT ![s] = "exited"]
    /\ UNCHANGED <<pc, now, crashed, tmpDir, started, srvPromise, srvTimer,
                   srvKilled, procVar, game, gamePromise, gameTimer, gameKilled,
                   gameFirst, closeArgs, completion, teardownCount, srvFirst, restVars>>

\* lines 77-90 and 103-107: Promise.all fulfilled; assign userProc and
\* oppProc, spawn the game and arm its 30 s timer
AwaitServersResolved ==
    /\ ~crashed /\ pc = "awaitServers" /\ AllResolved
    /\ procVar' = [s \in Sides |-> TRUE]
    /\ game' = "running"
    /\ gamePromise' = Pending
    /\ gameTimer' = Timer("armed", now + GameTimeout)
    /\ pc' = "awaitGame"
    /\ UNCHANGED <<now, crashed, tmpDir, proc, started, srvPromise, srvTimer,
                   srvKilled, gameKilled, gameFirst, closeArgs, completion,
                   teardownCount, srvFirst, restVars>>

\* lines 77-80: Promise.all rejected with the first rejection; the
\* destructuring assignment never happens
AwaitServersRejected ==
    /\ ~crashed /\ pc = "awaitServers" /\ AnyRejected
    /\ LET s == CHOOSE x \in Sides : srvPromise[x].st = "rejected"
       IN completion' = [kind |-> "throw", value |-> NoValue,
                         error |-> srvPromise[s].error]
    /\ pc' = "finally"
    /\ UNCHANGED <<now, crashed, tmpDir, proc, started, srvPromise, srvTimer,
                   srvKilled, procVar, game, gamePromise, gameTimer, gameKilled,
                   gameFirst, closeArgs, teardownCount, srvFirst, restVars>>

\* lines 95-101: the game's 'close' event.  The replay file can only be
\* there while its directory is.
GameClose(code, stderr, file) ==
    /\ Idle /\ game = "running"
    /\ tmpDir # "exists" => file = MissingFile
    /\ game' = "closed"
    /\ closeArgs' = [seen |-> TRUE, code |-> code, stderr |-> stderr, file |-> file]
    /\ gameFirst' = IF gameFirst = "none" THEN "close" ELSE gameFirst
    /\ LET h == gameOnClose(code, stderr, file)
       IN CASE h.kind = "throw" ->
                 crashed' = TRUE /\ UNCHANGED gamePromise
            [] h.kind = "reject" ->
                 gamePromise' = Settle(gamePromise, Rejected(h.error))
                 /\ UNCHANGED crashed
            [] h.kind = "resolve" ->
                 gamePromise' = Settle(gamePromise, Resolved(h.value))
                 /\ UNCHANGED crashed
    /\ UNCHANGED <<pc, now, tmpDir, proc, started, srvPromise, srvTimer, srvKilled,
                   procVar, gameTimer, gameKilled, completion, teardownCount,
                   srvFirst, restVars>>

\* the 30 s timer rejecting without game.kill()
GameTimerFireNoKill ==
    /\ Idle /\ TimerDue(gameTimer)
    /\ gameTimer' = Timer("fired", gameTimer.at)
    /\ gamePromise' = Settle(gamePromise, Rejected(Err("Game timed out", "")))
    /\ gameFirst' = IF gameFirst = "none" THEN "timer" ELSE gameFirst
    /\ UNCHANGED <<pc, now, crashed, tmpDir, proc, started, srvPromise, srvTimer,
                   srvKilled, procVar, game, gameKilled, closeArgs, completion,
                   teardownCount, srvFirst, restVars>>

\* lines 104-107: the 30 s timer expires
GameTimerFire ==
    /\ Idle /\ TimerDue(gameTimer)
    /\ gameTimer' = Timer("fired", gameTimer.at)
    /\ gameKilled' = gameKilled + 1
    /\ gamePromise' = Settle(gamePromise, Rejected(Err("Game timed out", "")))
    /\ gameFirst' = IF gameFirst = "none" THEN "timer" ELSE gameFirst
    /\ UNCHANGED <<pc, now, crashed, tmpDir, proc, started, srvPromise, srvTimer,
                   srvKilled, procVar, game, closeArgs, completion, teardownCount,
                   srvFirst, restVars>>

\* lines 83 and 110: the awaited game promise settled
AwaitGameSettled ==
    /\ ~crashed /\ pc = "awaitGame" /\ gamePromise.st # "pending"
    /\ completion' = IF gamePromise.st = "resolved"
                     THEN [kind |-> "return", value |-> gamePromise.value,
                           error |-> NoErr]
                     ELSE [kind |-> "throw", value |-> NoValue,
                           error |-> gamePromise.error]
    /\ pc' = "finally"
    /\ UNCHANGED <<now, crashed, tmpDir, proc, started, srvPromise, srvTimer,
                   srvKilled, procVar, game, gamePromise, gameTimer, gameKilled,
                   gameFirst, closeArgs, teardownCount, srvFirst, restVars>>

\* the cleanup of the directory done on the success path only
FinallyKeepsDirOnThrow ==
    /\ ~crashed /\ pc = "finally"
    /\ srvKilled' = [s \in Sides |-> IF procVar[s] THEN srvKilled[s] + 1
                                     ELSE srvKilled[s]]
    /\ tmpDir' = IF completion.kind = "return" THEN "removed" ELSE tmpDir
    /\ teardownCount' = teardownCount + 1
    /\ pc' = "done"
    /\ UNCHANGED <<now, crashed, proc, started, srvPromise, srvTimer, procVar,
                   game, gamePromise, gameTimer, gameKilled, gameFirst, closeArgs,
                   completion, srvFirst, restVars>>

\* lines 111-118: the finally block, after which the call settles
Finally ==
    /\ ~crashed /\ pc = "finally"
    /\ srvKilled' = [s \in Sides |-> IF procVar[s] THEN srvKilled[s] + 1
                                     ELSE srvKilled[s]]
    /\ tmpDir' = "removed"
    /\ teardownCount' = teardownCount + 1
    /\ pc' = "done"
    /\ UNCHANGED <<now, crashed, proc, started, srvPromise, srvTimer, procVar,
                   game, gamePromise, gameTimer, gameKilled, gameFirst, closeArgs,
                   completion, srvFirst, restVars>>

\* a second passes; a timer that is due fires first.  Only timers read the
\* clock, so it is left alone once none is armed.
Tick ==
    /\ Idle /\ AnyTimerArmed /\ ~AnyTimerDue
    /\ now' = now + 1
    /\ UNCHANGED <<pc, crashed, tmpDir, proc, started, srvPromise, srvTimer,
                   srvKilled, procVar, game, gamePromise, gameTimer, gameKilled,
                   gameFirst, closeArgs, completion, teardownCount, srvFirst, restVars>>

----------------------------------------------------------------------------
(* submit (src/unnamed/part_002): the loop that polls getStatus for the    *)
(* job of a submission, lines 284-355.  The spinner written between polls  *)
(* is progress display only and is left out.                               *)
maxPolls == 100
NotFoundPolls == 20
\* the pause before every status query, in seconds
PollSleep == 3

MaxMatches == 3
\* a match entry, told apart by its series_result
MatchEntries == {"win", "loss"}
MatchLists(n) == [1..n -> MatchEntries]

\* What `await getStatus(job_id)` gives: it throws, or its data is null, or
\* its data is an object with the fields the loop reads.  An absent field
\* is "" (error, status), <<>> (matches) or "none" (result).
Reply(kind, error, status, matches, result) ==
    [kind |-> kind, error |-> error, status |-> status, matches |-> matches,
     result |-> result]
NoReply == Reply("none", "", "", <<>>, "none")
QueryError == Reply("throw", "ECONNRESET", "", <<>>, "none")
NullBody == Reply("null", "", "", <<>>, "none")
NotFoundBody == Reply("data", "Job not found", "", <<>>, "none")
JobBody(status, error, matches, result) ==
    Reply("data", error, status, matches, result)

\* a default backend that reports the job complete
CompleteBody == JobBody("complete", "", <<>>, "ok")
\* what getStatus gives without a request when no backend is configured,
\* src/lib/api.js line 86
DefaultBody == JobBody("completed", "", <<>>, "none")

\* the messages a failed job may carry and the results a complete one may
FailedErrors == {"", "boom"}
Results == {"ok", "malformed", "none"}

\* the job snapshots with the match list m
JobBodies(m) ==
    {JobBody("running", "", m, "none")}
       \cup {JobBody("failed", e, m, "none") : e \in FailedErrors}
       \cup {JobBody("complete", "", m, r) : r \in Results}

IsPrefix(a, b) == Len(a) <= Len(b) /\ SubSeq(b, 1, Len(a)) = a

\* a reply that shows the job: anything but a failed query and not-found
IsSnapshot(r) == r.kind = "data" /\ r.error # "Job not found"

Exit(fault, msg) == [fault |-> fault, msg |-> msg]
NoExit == Exit("none", "")

\* a line written for a match entry, with the place it had in its snapshot
MatchLine(idx, m) == [kind |-> "match", idx |-> idx, m |-> m]
ResultLine(r) == [kind |-> "result", idx |-> 0, m |-> r]

\* emission that starts over from the head of every snapshot
newMatchesFromHead(matches, count) ==
    [i \in 1..Len(matches) |-> MatchLine(i, matches[i])]

\* emission of one new entry a poll
newMatchesOnlyFirst(matches, count) ==
    IF count >= Len(matches)
    THEN <<>>
    ELSE <<MatchLine(count + 1, matches[count + 1])>>

\* no emission
newMatchesNone(matches, count) == <<>>

\* matches.slice(lastMatchCount), lines 324-325
newMatches(matches, count) ==
    IF count >= Len(matches)
    THEN <<>>
    ELSE [i \in 1..(Len(matches) - count) |-> MatchLine(count + i, matches[count + i])]

\* no not-found limit
notFoundFatalNever(n) == FALSE
\* the not-found limit one poll later
notFoundFatalLate(n) == n > NotFoundPolls
\* line 308
notFoundFatal(n) == n >= NotFoundPolls

\* a failed query that ends the loop whatever the count
failedQueryFatalAlways(n) == TRUE
\* line 297
failedQueryFatal(n) == n >= maxPolls

\* a ceiling one poll later
timedOutLate(n) == n > maxPolls
\* line 344
timedOut(n) == n >= maxPolls

\* a failed job reported by the default message only
failedMessageDefault(error) == "Unknown backend error"
\* job.error || "Unknown backend error", line 319
failedMessage(error) == IF error # "" THEN error ELSE "Unknown backend error"

\* displayResult, lines 69-74, on job.result: a missing result makes it
\* throw into the catch of line 356, a result without strategy_id or elo
\* makes it exit
displayResult(result) ==
    CASE result = "none" -> Exit("SubmissionFailed", "Submission failed")
      [] result = "malformed" -> Exit("UnexpectedResponse", "Unexpected response from server")
      [] OTHER -> NoExit

\* lines 278 and 340: if (fs.existsSync(parentFile)) fs.unlinkSync(parentFile)
unlinkParent(f) == IF f = "present" THEN "deleted" ELSE f

\* the lineage file removed whether or not the result could be displayed
parentAfterAlways(shown, f) == unlinkParent(f)

\* lines 277-278 and 339-340: the lineage file after displayResult, which
\* does not come back when it exits or throws
parentAfter(shown, f) == IF shown = NoExit THEN unlinkParent(f) ELSE f

PollHistory(r) ==
    /\ lastSnapshot' = IF IsSnapshot(r) THEN r.matches ELSE lastSnapshot
    /\ seenJob' = (seenJob \/ IsSnapshot(r))
    /\ grewOnly' = (grewOnly /\ (IsSnapshot(r) => IsPrefix(lastSnapshot, r.matches)))
    /\ onlyNotFound' = (onlyNotFound /\ r = NotFoundBody)
    /\ prevOnlyNotFound' = onlyNotFound
    /\ onlyFailed' = (onlyFailed /\ r.kind = "throw")
    /\ prevOnlyFailed' = onlyFailed
    /\ onlyDefault' = (onlyDefault /\ r = DefaultBody)

\* lines 288-290: the pause ends, polls++, getStatus is called
PollSleepDone ==
    /\ pollPc = "sleep"
    /\ polls' = polls + 1
    /\ queries' = queries + 1
    /\ job' = NoReply
    /\ emittedThisPoll' = 0
    /\ pollPc' = "query"
    /\ UNCHANGED <<lastMatchCount, out, pollExit, lastSnapshot, seenJob,
                   grewOnly, onlyNotFound, prevOnlyNotFound, onlyFailed,
                   prevOnlyFailed, onlyDefault, nonPollVars, fileVars>>

PollEnds(pcNext, exit) ==
    /\ pollPc' = pcNext
    /\ pollExit' = exit

\* an iteration that tests the ceiling before it looks at the reply
StatusReplyCeilingFirst(r) ==
    /\ pollPc = "query"
    /\ job' = r
    /\ PollHistory(r)
    /\ UNCHANGED <<polls, queries, lastMatchCount, out, emittedThisPoll, nonPollVars,
                   fileVars>>
    /\ IF timedOut(polls)
       THEN PollEnds("exited", Exit("PollTimeout", "Timed out waiting for results after 5 minutes"))
       ELSE PollEnds("sleep", NoExit)

\* an iteration that writes the new matches before it looks at the status
StatusReplyEmitsFirst(r) ==
    /\ pollPc = "query"
    /\ job' = r
    /\ PollHistory(r)
    /\ UNCHANGED <<polls, queries, nonPollVars>>
    /\ parentFile' = IF IsSnapshot(r) /\ r.status = "complete"
                     THEN parentAfter(displayResult(r.result), parentFile)
                     ELSE parentFile
    /\ CASE r.kind = "throw" ->
              /\ UNCHANGED <<lastMatchCount, out, emittedThisPoll>>
              /\ IF failedQueryFatal(polls)
                 THEN PollEnds("exited", Exit("BackendFailure", "Timed out waiting for results"))
                 ELSE PollEnds("sleep", NoExit)
         [] r.kind = "null" ->
              /\ UNCHANGED <<lastMatchCount, out, emittedThisPoll>>
              /\ PollEnds("exited", Exit("SubmissionFailed", "Submission failed"))
         [] r.kind = "data" /\ r.error = "Job not found" ->
              /\ UNCHANGED <<lastMatchCount, out, emittedThisPoll>>
              /\ IF notFoundFatal(polls)
                 THEN PollEnds("exited", Exit("JobNeverStarted", "Backend never started processing this job"))
                 ELSE PollEnds("sleep", NoExit)
         [] OTHER ->
              LET new == newMatches(r.matches, lastMatchCount)
              IN /\ lastMatchCount' = lastMatchCount + Len(new)
                 /\ emittedThisPoll' = Len(new)
                 /\ CASE r.status = "failed" ->
                          /\ out' = out \o new
                          /\ PollEnds("exited", Exit("Failed", failedMessage(r.error)))
                      [] r.status = "complete" /\ displayResult(r.result) = NoExit ->
                          /\ out' = (out \o new) \o <<ResultLine(r.result)>>
                          /\ PollEnds("done", NoExit)
                      [] r.status = "complete" /\ displayResult(r.result) # NoExit ->
                          /\ out' = out \o new
                          /\ PollEnds("exited", displayResult(r.result))
                      [] OTHER ->
                          /\ out' = out \o new
                          /\ IF timedOut(polls)
                             THEN PollEnds("exited", Exit("PollTimeout", "Timed out waiting for results after 5 minutes"))
                             ELSE PollEnds("sleep", NoExit)

\* lines 291-354: the rest of the iteration, once getStatus has settled
StatusReply(r) ==
    /\ pollPc = "query"
    /\ job' = r
    /\ PollHistory(r)
    /\ UNCHANGED <<polls, queries, nonPollVars>>
    /\ parentFile' = IF IsSnapshot(r) /\ r.status = "complete"
                     THEN parentAfter(displayResult(r.result), parentFile)
                     ELSE parentFile
    /\ CASE r.kind = "throw" ->
              /\ UNCHANGED <<lastMatchCount, out, emittedThisPoll>>
              /\ IF failedQueryFatal(polls)
                 THEN PollEnds("exited", Exit("BackendFailure", "Timed out waiting for results"))
                 ELSE PollEnds("sleep", NoExit)
         [] r.kind = "null" ->
              /\ UNCHANGED <<lastMatchCount, out, emittedThisPoll>>
              /\ PollEnds("exited", Exit("SubmissionFailed", "Submission failed"))
         [] r.kind = "data" /\ r.error = "Job not found" ->
              /\ UNCHANGED <<lastMatchCount, out, emittedThisPoll>>
              /\ IF notFoundFatal(polls)
                 THEN PollEnds("exited", Exit("JobNeverStarted", "Backend never started processing this job"))
                 ELSE PollEnds("sleep", NoExit)
         [] r.kind = "data" /\ r.error # "Job not found" /\ r.status = "failed" ->
              /\ UNCHANGED <<lastMatchCount, out, emittedThisPoll>>
              /\ PollEnds("exited", Exit("Failed", failedMessage(r.error)))
         [] OTHER ->
              LET new == newMatches(r.matches, lastMatchCount)
              IN /\ lastMatchCount' = lastMatchCount + Len(new)
                 /\ emittedThisPoll' = Len(new)
                 /\ IF r.status = "complete"
                    THEN IF displayResult(r.result) = NoExit
                         THEN /\ out' = (out \o new) \o <<ResultLine(r.result)>>
                              /\ PollEnds("done", NoExit)
                         ELSE /\ out' = out \o new
                              /\ PollEnds("exited", displayResult(r.result))
                    ELSE /\ out' = out \o new
                         /\ IF timedOut(polls)
                            THEN PollEnds("exited", Exit("PollTimeout", "Timed out waiting for results after 5 minutes"))
                            ELSE PollEnds("sleep", NoExit)

\* the parts of the program a specification leaves out stay as they are here
NoArgs == [found |-> FALSE, exists |-> FALSE, ext |-> "", model |-> FALSE, codeLen |-> 0]
NoHeader == [present |-> FALSE, secs |-> 0]
NoResponse == [kind |-> "none", status |-> 0, error |-> "", jobId |-> FALSE,
               result |-> "none", retryAfter |-> NoHeader]
SubmitOff ==
    /\ subPc = "off"
    /\ subArgs = NoArgs
    /\ requests = 0
    /\ wire = NoResponse
    /\ response = NoResponse

FileOff == parentFile = "absent"

NoStatus == [ended |-> FALSE, code |-> 0]
TestOff ==
    /\ testPc = "off"
    /\ results = <<>>
    /\ testExit = NoStatus

Decides(kind, value) == [kind |-> kind, value |-> value]
NoRequest == [method |-> "", url |-> "", body |-> "", decide |-> Decides("", Undef)]
Answer(sent, status, body, move) ==
    [sent |-> sent, status |-> status, body |-> body, move |-> move]
NoAnswer == Answer(FALSE, 0, "", "")
WrapOff ==
    /\ wReq = NoRequest
    /\ wRes = NoAnswer

PollOff ==
    /\ pollPc = "off"
    /\ polls = 0
    /\ lastMatchCount = 0
    /\ job = NoReply
    /\ queries = 0
    /\ out = <<>>
    /\ pollExit = NoExit
    /\ emittedThisPoll = 0
    /\ lastSnapshot = <<>>
    /\ seenJob = FALSE
    /\ grewOnly = TRUE
    /\ onlyNotFound = TRUE
    /\ prevOnlyNotFound = TRUE
    /\ onlyFailed = TRUE
    /\ prevOnlyFailed = TRUE
    /\ onlyDefault = TRUE

----------------------------------------------------------------------------
RunnerInit ==
    /\ pc = "start"
    /\ now = 0
    /\ crashed = FALSE
    /\ tmpDir = "none"
    /\ proc = [s \in Sides |-> "unspawned"]
    /\ started = [s \in Sides |-> FALSE]
    /\ srvPromise = [s \in Sides |-> NoPromise]
    /\ srvTimer = [s \in Sides |-> Timer("unset", 0)]
    /\ srvKilled = [s \in Sides |-> 0]
    /\ srvFirst = [s \in Sides |-> "none"]
    /\ procVar = [s \in Sides |-> FALSE]
    /\ game = "unspawned"
    /\ gamePromise = NoPromise
    /\ gameTimer = Timer("unset", 0)
    /\ gameKilled = 0
    /\ gameFirst = "none"
    /\ closeArgs = NoClose
    /\ completion = NoCompletion
    /\ teardownCount = 0

NoCallback == [kind |-> "", value |-> NoValue, error |-> NoErr]
NoParse == [done |-> FALSE, close |-> NoCallback, result |-> NoValue]

Init ==
    /\ RunnerInit
    /\ pInput = [code |-> 0, stderr |-> "", file |-> MissingFile]
    /\ pOutput = NoParse
    /\ PollOff
    /\ SubmitOff /\ TestOff /\ WrapOff /\ FileOff

Next ==
    \/ Mkdtemp
    \/ \E s \in Sides : startServer(s)
    \/ \E s \in Sides, marker \in BOOLEAN : StdoutData(s, marker)
    \/ \E s \in Sides, text \in StderrTexts \ {""} : StderrData(s, text)
    \/ \E s \in Sides : SrvTimerFire(s)
    \/ \E s \in Sides : ProcExit(s)
    \/ AwaitServersResolved
    \/ AwaitServersRejected
    \/ \E code \in ExitCodes, stderr \in StderrTexts, file \in RunnerFiles :
          GameClose(code, stderr, file)
    \/ GameTimerFire
    \/ AwaitGameSettled
    \/ Finally
    \/ Tick

Spec == Init /\ [][Next]_vars

----------------------------------------------------------------------------
(* parseResult and the 'close' callback on their own, over every replay    *)
(* file of at most MaxLines lines drawn from ParseLines.                   *)
SummaryLines ==
    { Summary(Undef, Undef),
      Summary(Str(""), Bool(FALSE)),
      Summary(Str("you"), Bool(FALSE)),
      Summary(Str("opponent"), Bool(FALSE)),
      Summary(Str("you"), Bool(TRUE)),
      Summary(Undef, Bool(TRUE)),
      Summary(Str("opponent"), Undef),
      Summary(Str("you"), Undef) }
TurnLines ==
    { TurnLine(0), TurnLine(42), TurnLine(0 - 1), Obj(Undef, Undef, Str("x")) }
ParseLines ==
    {Blank, Invalid, Null} \cup SummaryLines \cup TurnLines
       \cup {Obj(Str("you"), Bool(FALSE), Num(42))}

\* every replay of n lines
ParseContents(n) == [1..n -> ParseLines]

ParseInit ==
    /\ RunnerInit
    /\ PollOff
    /\ SubmitOff /\ TestOff /\ WrapOff /\ FileOff
    /\ pOutput = NoParse
    /\ \E code \in ExitCodes :
          \/ pInput = [code |-> code, stderr |-> "panic", file |-> MissingFile]
          \/ \E n \in 0..MaxLines : \E c \in ParseContents(n) :
                pInput = [code |-> code, stderr |-> "panic", file |-> File(c)]

\* the game closes with pInput.code, leaving pInput.file behind
ParseStep ==
    /\ ~pOutput.done
    /\ pOutput' = [done |-> TRUE,
                   close |-> gameOnClose(pInput.code, pInput.stderr, pInput.file),
                   result |-> parseResult(pInput.file)]
    /\ UNCHANGED <<pInput, runnerVars, pollVars, submitVars, testVars, wrapVars, fileVars>>

ParseNext == ParseStep

SpecParse == ParseInit /\ [][ParseNext]_vars

----------------------------------------------------------------------------
(* test (src/commands/test.js), lines 108-118: what the loop of three      *)
(* games pushes on `results` for a game, given how runLocalGame settled:   *)
(* the value it returned, or an error entry when it threw.                 *)
testRecord(settle) ==
    IF settle.kind = "resolve"
    THEN [winner |-> settle.value.winner, turns |-> settle.value.turns]
    ELSE [winner |-> "error", turns |-> Num(0)]

----------------------------------------------------------------------------
(* The poll loop from the moment the submission gave a job id (line 284),  *)
(* against a backend free to answer each status query with any reply.      *)
Replies ==
    {QueryError, NullBody, NotFoundBody, DefaultBody}
       \cup UNION {JobBodies(m) : m \in UNION {MatchLists(n) : n \in 0..MaxMatches}}

PollInit ==
    /\ RunnerInit
    /\ SubmitOff /\ TestOff /\ WrapOff
    /\ parentFile = "present"
    /\ pInput = [code |-> 0, stderr |-> "", file |-> MissingFile]
    /\ pOutput = NoParse
    /\ pollPc = "sleep"
    /\ polls = 0
    /\ lastMatchCount = 0
    /\ job = NoReply
    /\ queries = 0
    /\ out = <<>>
    /\ pollExit = NoExit
    /\ emittedThisPoll = 0
    /\ lastSnapshot = <<>>
    /\ seenJob = FALSE
    /\ grewOnly = TRUE
    /\ onlyNotFound = TRUE
    /\ prevOnlyNotFound = TRUE
    /\ onlyFailed = TRUE
    /\ prevOnlyFailed = TRUE
    /\ onlyDefault = TRUE

PollNext ==
    \/ PollSleepDone
    \/ \E r \in Replies : StatusReply(r)

SpecPoll == PollInit /\ [][PollNext]_vars

\* apiRequest (src/lib/api.js lines 31-59) settles on the 'end' of the
\* response or on an 'error' of the request and sets no timeout: a backend
\* that lets neither come leaves `await getStatus(job_id)` pending.
QueryNeverAnswers ==
    /\ pollPc = "query"
    /\ pollPc' = "hung"
    /\ UNCHANGED <<polls, lastMatchCount, job, queries, out, pollExit,
                   emittedThisPoll, lastSnapshot, seenJob, grewOnly, onlyNotFound,
                   prevOnlyNotFound, onlyFailed, prevOnlyFailed, onlyDefault,
                   nonPollVars, fileVars>>

PollNextFair ==
    \/ PollNext
    \/ QueryNeverAnswers

\* the poll loop with every step that can be taken taken in the end: the
\* 3 s timer fires, and the backend either answers or is known not to
SpecPollFair == PollInit /\ [][PollNextFair]_vars /\ WF_vars(PollNextFair)

----------------------------------------------------------------------------
(* submit (src/unnamed/part_002), lines 175-282: the checks on the         *)
(* strategy file and the flags, the submission request and what is made of *)
(* its response, up to the poll loop.                                      *)

\* line 211: the longest code that is submitted, in characters
MaxCode == 50000

\* detectLanguage, lines 27-31, on the end of the file name
detectLanguage(ext) ==
    CASE ext = ".py" -> "python"
      [] ext = ".js" -> "javascript"
      [] OTHER -> ""

\* the checks without the one on the length of the code
validateAnySize(a) ==
    CASE ~a.found -> Exit("NoFile", "No strategy file found")
      [] ~a.exists -> Exit("FileNotFound", "File not found")
      [] detectLanguage(a.ext) = "" -> Exit("BadLanguage", "File must end with .py or .js")
      [] ~a.model -> Exit("NoModel", "--model is required")
      [] OTHER -> NoExit

\* lines 175-214, in the order of the code: the exit the command takes
\* before any request, or NoExit when the submission goes out
validate(a) ==
    CASE ~a.found -> Exit("NoFile", "No strategy file found")
      [] ~a.exists -> Exit("FileNotFound", "File not found")
      [] detectLanguage(a.ext) = "" -> Exit("BadLanguage", "File must end with .py or .js")
      [] ~a.model -> Exit("NoModel", "--model is required")
      [] a.codeLen > MaxCode -> Exit("TooLarge", "Strategy file too large (max 50KB)")
      [] OTHER -> NoExit

\* apiRequest (src/lib/api.js lines 44-53) resolves with the status code
\* and the body only: the headers of the HTTP response are not passed on
apiRequest(w) == [w EXCEPT !.retryAfter = NoHeader]

\* Math.ceil(parseInt(retryAfter, 10) / 60), line 254
retryMinutes(secs) == (secs + 59) \div 60

\* line 255
rateLimitMessage(mins) ==
    "Rate limited - retry in " \o ToString(mins) \o " minute"
        \o (IF mins # 1 THEN "s" ELSE "")

\* lines 251-256: the message of a refused submission
submissionMessage(r) ==
    IF r.status = 429 /\ r.retryAfter.present
    THEN rateLimitMessage(retryMinutes(r.retryAfter.secs))
    ELSE CASE r.error # "" -> r.error
           [] r.kind = "string" -> "not JSON"
           [] OTHER -> "HTTP " \o ToString(r.status)

\* displayResult, lines 69-74, on the body of the submission's response:
\* what has no strategy_id or no elo is an unexpected response
displaySync(r) ==
    IF r.kind = "data" /\ r.result = "ok" THEN NoExit
    ELSE Exit("UnexpectedResponse", "Unexpected response from server")

Validate ==
    /\ subPc = "start"
    /\ IF validate(subArgs) = NoExit
       THEN /\ subPc' = "request"
            /\ requests' = requests + 1
            /\ pollExit' = pollExit
       ELSE /\ subPc' = "exited"
            /\ requests' = requests
            /\ pollExit' = validate(subArgs)
    /\ UNCHANGED <<subArgs, wire, response, pollPc, polls, lastMatchCount, job,
                   queries, out, emittedThisPoll, lastSnapshot, seenJob, grewOnly,
                   onlyNotFound, prevOnlyNotFound, onlyFailed, prevOnlyFailed,
                   onlyDefault, runnerVars, parseVars, testVars, wrapVars, fileVars>>

SubmitEnds(pcNext, exit, shown, loop) ==
    /\ subPc' = pcNext
    /\ pollExit' = exit
    /\ out' = shown
    /\ pollPc' = loop

\* a command that goes on to the poll loop whether or not a job id came
SubmitReplyAlwaysPolls(w) ==
    /\ subPc = "request"
    /\ wire' = w
    /\ response' = apiRequest(w)
    /\ UNCHANGED <<subArgs, requests, polls, lastMatchCount, job, queries,
                   emittedThisPoll, lastSnapshot, seenJob, grewOnly, onlyNotFound,
                   prevOnlyNotFound, onlyFailed, prevOnlyFailed, onlyDefault,
                   runnerVars, parseVars, testVars, wrapVars, fileVars>>
    /\ LET r == apiRequest(w)
       IN CASE r.kind = "throw" ->
                 SubmitEnds("exited", Exit("SubmissionFailed", "Submission failed"), out, "off")
            [] r.kind # "throw" /\ (r.status >= 400 \/ (r.kind # "null" /\ r.error # "")) ->
                 SubmitEnds("exited", Exit("SubmissionError", submissionMessage(r)), out, "off")
            [] OTHER ->
                 SubmitEnds("polling", NoExit, out, "sleep")

\* lines 247-282: submitStrategy has settled
SubmitReply(w) ==
    /\ subPc = "request"
    /\ wire' = w
    /\ response' = apiRequest(w)
    /\ UNCHANGED <<subArgs, requests, polls, lastMatchCount, job, queries,
                   emittedThisPoll, lastSnapshot, seenJob, grewOnly, onlyNotFound,
                   prevOnlyNotFound, onlyFailed, prevOnlyFailed, onlyDefault,
                   runnerVars, parseVars, testVars, wrapVars>>
    /\ LET r == apiRequest(w)
       IN parentFile' = IF /\ r.kind \in {"data", "string"} /\ r.status < 400
                           /\ r.error = "" /\ ~r.jobId
                        THEN parentAfter(displaySync(r), parentFile)
                        ELSE parentFile
    /\ LET r == apiRequest(w)
       IN CASE r.kind = "throw" ->
                 \* the request failed: the catch of line 356
                 SubmitEnds("exited", Exit("SubmissionFailed", "Submission failed"), out, "off")
            [] r.kind # "throw" /\ r.status >= 400 ->
                 SubmitEnds("exited", Exit("SubmissionError", submissionMessage(r)), out, "off")
            [] r.kind = "null" /\ r.status < 400 ->
                 \* response.data.error on null throws: the catch of line 356
                 SubmitEnds("exited", Exit("SubmissionFailed", "Submission failed"), out, "off")
            [] r.kind \in {"data", "string"} /\ r.status < 400 /\ r.error # "" ->
                 SubmitEnds("exited", Exit("SubmissionError", submissionMessage(r)), out, "off")
            [] r.kind \in {"data", "string"} /\ r.status < 400 /\ r.error = "" /\ ~r.jobId ->
                 \* lines 275-280: the synchronous result
                 IF displaySync(r) = NoExit
                 THEN SubmitEnds("returned", NoExit, out \o <<ResultLine(r.result)>>, "off")
                 ELSE SubmitEnds("exited", displaySync(r), out, "off")
            [] OTHER ->
                 \* line 282: a job id came, the poll loop starts
                 SubmitEnds("polling", NoExit, out, "sleep")

\* the command lines: a file path given or found or neither, a file of every
\* kind of name, present or not, with or without --model, and code around
\* the size limit
ArgSets ==
    [found : BOOLEAN, exists : BOOLEAN, ext : {".py", ".js", ".txt"},
     model : BOOLEAN, codeLen : {0, MaxCode, MaxCode + 1}]

HttpStatuses == {200, 400, 429, 500}
RetrySeconds == {0, 1, 60, 61}
RetryHeaders == {NoHeader} \cup {[present |-> TRUE, secs |-> s] : s \in RetrySeconds}

Wire(kind, status, error, jobId, result, retryAfter) ==
    [kind |-> kind, status |-> status, error |-> error, jobId |-> jobId,
     result |-> result, retryAfter |-> retryAfter]

\* what the backend can send to the submission: nothing (the request
\* fails), a body that is JSON null, a body that is not JSON, or an object
\* with or without error, job id and result; a retry-after header comes with
\* a 429
WireResponses ==
    {Wire("throw", 0, "", FALSE, "none", NoHeader)}
       \cup {Wire(k, st, "", FALSE, "none", NoHeader) :
                k \in {"null", "string"}, st \in HttpStatuses}
       \cup {Wire("data", st, e, j, res, NoHeader) :
                st \in HttpStatuses \ {429}, e \in {"", "Invalid code"},
                j \in BOOLEAN, res \in {"ok", "malformed"}}
       \cup {Wire("data", 429, e, FALSE, "malformed", h) :
                e \in {"", "Too many submissions"}, h \in RetryHeaders}

\* the replies to the status queries of a submission
SubmitReplies ==
    {QueryError, NotFoundBody, DefaultBody, JobBody("running", "", <<>>, "none"),
     JobBody("failed", "boom", <<>>, "none"), JobBody("complete", "", <<"win">>, "ok")}

SubmitInit ==
    /\ RunnerInit
    /\ PollOff /\ TestOff /\ WrapOff
    /\ pInput = [code |-> 0, stderr |-> "", file |-> MissingFile]
    /\ pOutput = NoParse
    /\ subPc = "start"
    /\ subArgs \in ArgSets
    /\ requests = 0
    /\ wire = NoResponse
    /\ response = NoResponse
    /\ parentFile \in {"absent", "present"}

SubmitNext ==
    \/ Validate
    \/ \E w \in WireResponses : SubmitReply(w)
    \/ PollSleepDone
    \/ \E r \in SubmitReplies : StatusReply(r)

SpecSubmit == SubmitInit /\ [][SubmitNext]_vars

----------------------------------------------------------------------------
(* test (src/commands/test.js), lines 104-131: the loop of local games,    *)
(* each call of runLocalGame taken by the way it settles.                  *)

\* line 106: the number of games of a local test
Games == 3

\* the rejections of startServer, lines 28 and 38
StartFaults == {"Server failed", "Server start timed out"}

Settlement(kind, value, error) == [kind |-> kind, value |-> value, error |-> error]

\* how a call of runLocalGame ends for its caller: by the outcome of the
\* game's 'close' callback, or by a rejection for a server that failed or
\* did not start in time or for a game that did not end in time
GameSettlements ==
    {gameOnClose(c, e, f) : c \in ExitCodes, e \in StderrTexts, f \in RunnerFiles}
       \cup {Settlement("reject", NoValue, Err(n, "")) :
                 n \in StartFaults \cup {"Game timed out"}}

\* lines 121-131 and src/cli.js lines 60-62: the summary is printed and
\* main returns, whatever was recorded
testStatus(rs) == 0

\* one pass of the loop, lines 106-119, and after the last one the summary,
\* lines 121-131; an exception out of the 'close' callback ends the process
TestGame(settle) ==
    /\ testPc = "loop"
    /\ IF settle.kind = "throw"
       THEN /\ testPc' = "crashed"
            /\ results' = results
            /\ testExit' = [ended |-> TRUE, code |-> 1]
       ELSE /\ results' = Append(results, testRecord(settle))
            /\ IF Len(results) + 1 < Games
               THEN /\ testPc' = "loop"
                    /\ testExit' = testExit
               ELSE /\ testPc' = "done"
                    /\ testExit' = [ended |-> TRUE,
                                    code |-> testStatus(Append(results, testRecord(settle)))]
    /\ UNCHANGED <<runnerVars, parseVars, pollVars, submitVars, wrapVars, fileVars>>

TestInit ==
    /\ RunnerInit
    /\ PollOff /\ SubmitOff /\ WrapOff /\ FileOff
    /\ pInput = [code |-> 0, stderr |-> "", file |-> MissingFile]
    /\ pOutput = NoParse
    /\ testPc = "loop"
    /\ results = <<>>
    /\ testExit = NoStatus

TestNext == \E settle \in GameSettlements : TestGame(settle)

SpecTest == TestInit /\ [][TestNext]_vars

----------------------------------------------------------------------------
(* The decision-server wrapper (src/templates/_server_wrapper.js), lines   *)
(* 20-50: one request at a time, with what the strategy's decideMove does  *)
(* when it is called for the request.                                      *)

\* line 34
Moves == {"up", "down", "left", "right"}

\* a reply that passes on whatever string decideMove returned
moveOfUnchecked(body, decide) ==
    CASE body # "json" -> "up"
      [] decide.kind # "return" -> "up"
      [] OTHER -> decide.value.s

\* lines 31-40: JSON.parse(body) or decideMove(data) throws (decideMove is
\* undefined when the strategy exports none), or decideMove returns a value
\* that is kept when it is one of the four moves
moveOf(body, decide) ==
    CASE body # "json" -> "up"
      [] decide.kind # "return" -> "up"
      [] decide.value.t = "string" /\ decide.value.s \in Moves -> decide.value.s
      [] OTHER -> "up"

Methods == {"GET", "POST", "PUT"}
Urls == {"/move", "/start", "/"}
Bodies == {"json", "not json", "empty"}
DecideOutcomes ==
    {Decides("return", Str(m)) : m \in Moves \cup {"straight", "UP", ""}}
       \cup {Decides("return", Undef), Decides("return", Num(1)),
             Decides("throw", Undef), Decides("missing", Undef)}

Requests ==
    {[method |-> m, url |-> u, body |-> b, decide |-> d] :
        m \in Methods, u \in Urls, b \in Bodies, d \in DecideOutcomes}

\* lines 20-28 and 46-49: a request comes in; a GET and a method that is
\* neither GET nor POST are answered at once, a POST once its body is read
Receive(r) ==
    /\ wReq = NoRequest \/ wRes.sent
    /\ wReq' = r
    /\ wRes' = CASE r.method = "GET" -> Answer(TRUE, 200, "apiversion", "")
                 [] r.method = "POST" -> NoAnswer
                 [] OTHER -> Answer(TRUE, 404, "", "")
    /\ UNCHANGED <<runnerVars, parseVars, pollVars, submitVars, testVars, fileVars>>

\* lines 29-45: the 'end' of the body of a POST
BodyEnd ==
    /\ wReq.method = "POST"
    /\ ~wRes.sent
    /\ wRes' = IF wReq.url = "/move"
               THEN Answer(TRUE, 200, "move", moveOf(wReq.body, wReq.decide))
               ELSE Answer(TRUE, 200, "ok", "")
    /\ UNCHANGED <<wReq, runnerVars, parseVars, pollVars, submitVars, testVars,
                   fileVars>>

WrapInit ==
    /\ RunnerInit
    /\ PollOff /\ SubmitOff /\ TestOff /\ FileOff
    /\ pInput = [code |-> 0, stderr |-> "", file |-> MissingFile]
    /\ pOutput = NoParse
    /\ wReq = NoRequest
    /\ wRes = NoAnswer

WrapNext ==
    \/ \E r \in Requests : Receive(r)
    \/ BodyEnd

SpecWrapper == WrapInit /\ [][WrapNext]_vars

----------------------------------------------------------------------------
(* Properties of runLocalGame, checked under Spec.                         *)
Threw(name) == completion.kind = "throw" /\ completion.error.name = name

\* C1: when the call has settled, every decision server that was spawned
\* has had kill() called on it.
C1_SpawnedServersSignalled ==
    pc = "done" =>
        \A s \in Sides : proc[s] # "unspawned" => srvKilled[s] >= 1

\* C2: the temporary directory exists from the first statement on and is
\* removed, by the finally block, when the call has settled, however it
\* settled.
C2_TmpDirRemoved ==
    /\ pc # "start" => tmpDir # "none"
    /\ tmpDir = "removed" => teardownCount >= 1
    /\ pc = "done" => tmpDir = "removed"

C2_Witness ==
    pc = "done" /\ Threw("Game failed") /\ tmpDir = "removed"

\* C3: the finally block runs exactly once per invocation (never twice,
\* and once whenever the invocation has ended, be it by settling or by an
\* exception escaping), after both servers were spawned and not while the
\* game's promise is pending.
C3_TeardownExactlyOnce ==
    /\ teardownCount <= 1
    /\ (pc = "done" \/ crashed) => teardownCount = 1
    /\ teardownCount >= 1 =>
          /\ \A s \in Sides : proc[s] # "unspawned"
          /\ gamePromise.st # "pending"

\* C4: the game is spawned only once both server promises are resolved;
\* once either is rejected the game is never spawned and the call throws
\* that start fault; past the 5 s timeout either both are resolved or the
\* call has failed so.
C4_EngineOnlyAfterBothReady ==
    /\ game # "unspawned" =>
          \A s \in Sides : srvPromise[s].st = "resolved" /\ srvFirst[s] = "marker"
    /\ AnyRejected =>
          /\ game = "unspawned"
          /\ pc \in {"awaitServers", "finally", "done"}
          /\ pc = "awaitServers" => MicrotaskPending
          /\ pc # "awaitServers" =>
                completion.kind = "throw" /\ completion.error.name \in StartFaults
    /\ now > StartTimeout =>
          \/ AllResolved
          \/ pc = "done" /\ completion.kind = "throw"
                /\ completion.error.name \in StartFaults

C4_Witness ==
    /\ pc = "done"
    /\ srvPromise["user"].st = "resolved"
    /\ srvPromise["opp"].st = "rejected"
    /\ game = "unspawned"
    /\ completion.error.name \in StartFaults

\* C5: a server promise is resolved only when the marker came before both
\* stderr output and the timer; a server that has not emitted the marker
\* when its timer has fired is rejected and was killed; and the timer fires
\* before the clock passes its deadline, StartTimeout after the spawn.
C5_ReadyOnlyByMarkerInTime ==
    \A s \in Sides :
        /\ srvPromise[s].st = "resolved" => srvFirst[s] = "marker" /\ started[s]
        /\ srvTimer[s].st = "fired" /\ ~started[s] =>
              srvPromise[s].st = "rejected" /\ srvKilled[s] >= 1
        /\ srvTimer[s].st = "fired" => srvPromise[s].st # "pending"
        /\ srvTimer[s].st # "unset" =>
              /\ srvTimer[s].at = StartTimeout
              /\ now > srvTimer[s].at => srvTimer[s].st = "fired"

C5_Witness ==
    \E s \in Sides :
        /\ proc[s] = "exited" /\ ~started[s]
        /\ srvTimer[s].st = "fired" /\ srvFirst[s] = "timer"
        /\ srvPromise[s] = Rejected(Err("Server start timed out", ""))
        /\ srvKilled[s] = 1

\* C6: when the game's timer expires before the game closed, game.kill()
\* is called and the call throws "Game timed out", after the finally block
\* killed both servers and removed the directory; the timer expires
\* GameTimeout after the spawn at the latest.
C6_GameTimeout ==
    /\ gameTimer.st # "unset" /\ now > gameTimer.at => gameTimer.st = "fired"
    /\ gameTimer.st = "armed" => now <= gameTimer.at /\ gameTimer.at - now <= GameTimeout
    /\ gameFirst = "timer" =>
          /\ gameKilled >= 1
          /\ gamePromise = Rejected(Err("Game timed out", ""))
          /\ pc \in {"awaitGame", "finally", "done"}
          /\ pc = "awaitGame" => MicrotaskPending
          /\ pc # "awaitGame" => Threw("Game timed out")
          /\ pc = "done" =>
                /\ \A s \in Sides : srvKilled[s] >= 1
                /\ tmpDir = "removed"
                /\ teardownCount = 1

C6_Witness ==
    /\ gameFirst = "timer" /\ game = "running" /\ gameKilled = 1
    /\ pc = "done" /\ Threw("Game timed out")

----------------------------------------------------------------------------
(* Properties of parseResult, checked under SpecParse.                     *)
ReplayLines == TrimSplit(pInput.file.content)
LastLine == ReplayLines[Len(ReplayLines)]
TurnRecord == ReplayLines[Len(ReplayLines) - 1]
\* at least two lines, as parseResult splits them, the last one a summary
HasSummary ==
    /\ pInput.file.exists
    /\ Len(ReplayLines) >= 2
    /\ LastLine.kind = "object"
SummaryOutcome ==
    IF LastLine.isDraw = Bool(TRUE) THEN "draw"
    ELSE IF LastLine.winnerName = Str("you") THEN "you" ELSE "opponent"
LenientDraw(r) ==
    ~r.threw /\ r.winner = "draw" /\ r.turns = Num(0) /\ r.error # ""

\* C8: a replay file of fewer than two lines (empty, a single line, or
\* nothing but one line between blank ones) and a missing file after exit
\* code 0 both give the returned value {winner: draw, turns: 0} with a
\* non-empty error note; nothing is thrown and the promise is resolved.
C8_FewerThanTwoLinesIsDraw ==
    pOutput.done =>
        /\ pInput.file.exists /\ Len(pInput.file.content) < 2 =>
              Len(ReplayLines) < 2
        /\ pInput.file.exists /\ Len(ReplayLines) < 2 =>
              /\ LenientDraw(pOutput.result)
              /\ pOutput.close.kind = "resolve"
              /\ pOutput.close.value = pOutput.result
        /\ ~pInput.file.exists =>
              LenientDraw(pOutput.result)
        /\ ~pInput.file.exists /\ pInput.code = 0 =>
              /\ pOutput.close.kind = "resolve"
              /\ LenientDraw(pOutput.close.value)

C8_Witness ==
    /\ pOutput.done /\ ~pInput.file.exists /\ pInput.code = 0
    /\ pOutput.close.kind = "resolve"
    /\ pOutput.close.value.error = "No output"

\* C9: for a replay of at least two lines ending in a summary, the winner
\* is draw when the summary's isDraw is true, else you when its winnerName
\* is "you", else opponent (also without a winnerName or with an empty
\* one); and turns is the turn number of the second-to-last line when that
\* line carries one.
C9_SummaryDecidesOutcome ==
    pOutput.done /\ HasSummary =>
        /\ ~pOutput.result.threw
        /\ pOutput.result.error = ""
        /\ pOutput.result.winner = SummaryOutcome
        /\ TurnRecord.kind = "object" /\ TurnRecord.turn.t = "number" =>
              pOutput.result.turns = TurnRecord.turn

C9_Witness ==
    /\ pOutput.done
    /\ pInput.file = File(<<TurnLine(42), Summary(Str("you"), Bool(FALSE))>>)
    /\ pOutput.result.winner = "you"
    /\ pOutput.result.turns = Num(42)

\* C10: when the second-to-last line is not JSON, or is JSON without a
\* turn, the result still carries the summary's outcome, with turns 0.
C10_BadTurnRecordGivesZero ==
    pOutput.done /\ HasSummary
      /\ (TurnRecord.kind # "object" \/ TurnRecord.turn = Undef) =>
        /\ ~pOutput.result.threw
        /\ pOutput.result.winner = SummaryOutcome
        /\ pOutput.result.turns = Num(0)

C10_Witness ==
    /\ pOutput.done
    /\ pInput.file = File(<<Invalid, Summary(Str("opponent"), Bool(FALSE))>>)
    /\ pOutput.result.winner = "opponent"
    /\ pOutput.result.turns = Num(0)

----------------------------------------------------------------------------
(* The test command                                                        *)
Outcomes == {"you", "opponent", "draw", "error"}

\* C11: a game the test command records, whatever replay the game left and
\* however it ended, has one outcome of you, opponent, draw and error, and
\* a turn count that is an integer of at least 0.
C11_RecordedOutcomeAndTurns ==
    (pOutput.done /\ pOutput.close.kind # "throw") =>
       LET r == testRecord(pOutput.close)
       IN /\ r.winner \in Outcomes
          /\ r.turns.t = "number"
          /\ r.turns.n >= 0

\* a server that printed its marker listens on its port while it runs
PortHeld(s) == proc[s] = "running" /\ started[s]

\* C12: when the call has settled, no port is held by a server of the call
\* that was never told to stop (one told to stop frees it as it exits).
C12_NoPortHeldWhenSettled ==
    pc = "done" =>
       \A s \in Sides : ~(PortHeld(s) /\ srvKilled[s] = 0)

----------------------------------------------------------------------------
(* The poll loop of submit                                                 *)
\* the match lines written so far, and the entries they show
Emitted == SelectSeq(out, LAMBDA l : l.kind = "match")
EmittedEntries == [i \in 1..Len(Emitted) |-> Emitted[i].m]
PollReplied == pollPc # "query" /\ job # NoReply
\* a job snapshot was received in this iteration and got as far as emission
Emitting == PollReplied /\ IsSnapshot(job) /\ job.status # "failed"
PollEnded == pollPc \in {"done", "exited"}

C14_CountWithinLatestSnapshot == lastMatchCount <= Len(lastSnapshot)

\* C14: lastMatchCount never decreases, every index below it has been
\* written exactly once, and, while every job snapshot extends the one
\* before it, lastMatchCount is at most the length of the matches of the
\* latest snapshot.
C14_CountMonotoneAndEmittedOnce ==
    /\ [](/\ lastMatchCount = Len(Emitted)
          /\ \A i \in 1..lastMatchCount :
                Cardinality({k \in 1..Len(Emitted) : Emitted[k].idx = i}) = 1
          /\ grewOnly => lastMatchCount <= Len(lastSnapshot))
    /\ [][lastMatchCount' >= lastMatchCount]_vars

\* the counter has moved twice, over snapshots of one and then three entries
C14_Witness ==
    /\ grewOnly
    /\ Emitting
    /\ lastMatchCount = 3
    /\ emittedThisPoll = 2
    /\ Len(lastSnapshot) = 3

\* C15: with a poll every PollSleep seconds, twenty "Job not found" replies
\* in a row from the first poll end the loop with JobNeverStarted at the
\* 20th poll (60 s) and not before; nineteen followed by a running job on
\* the 20th poll do not end it, and the loop goes on with the job seen.
C15_NotFoundLimitAtTwentiethPoll ==
    /\ (onlyNotFound /\ PollReplied /\ polls < NotFoundPolls) =>
          pollPc = "sleep" /\ pollExit = NoExit
    /\ (onlyNotFound /\ PollReplied /\ polls >= NotFoundPolls) =>
          /\ polls = 20
          /\ polls * PollSleep = 60
          /\ pollPc = "exited"
          /\ pollExit.fault = "JobNeverStarted"
    /\ (prevOnlyNotFound /\ PollReplied /\ polls = 20 /\ IsSnapshot(job)
           /\ job.status = "running") =>
          pollPc = "sleep" /\ pollExit = NoExit /\ seenJob

C15_Witness ==
    /\ onlyNotFound
    /\ PollReplied
    /\ polls = 20
    /\ pollExit.fault = "JobNeverStarted"

\* C16: the loop ends with JobNeverStarted only if no job snapshot was
\* received on an earlier poll.
C16_NeverStartedOnlyIfNeverSeen ==
    pollExit.fault = "JobNeverStarted" => ~seenJob

\* C17 as stated: a loop that has made its 100th poll without a complete
\* or failed job has ended with PollTimeout.
C17_CeilingEndsInPollTimeout ==
    (polls = maxPolls /\ PollReplied
        /\ ~(IsSnapshot(job) /\ job.status \in {"complete", "failed"})) =>
       pollExit.fault = "PollTimeout"

\* C17: there is no 101st poll or status query: a loop that has made its
\* 100th poll (300 s) has ended, and when the 100th reply is not a complete
\* or failed job it has ended with PollTimeout if that reply is a job
\* snapshot, with BackendFailure if the query failed, with JobNeverStarted
\* if the reply is "Job not found", and as a failed submission if the reply
\* is null.
C17_CeilingEndsLoop ==
    /\ polls <= maxPolls
    /\ queries <= maxPolls
    /\ (polls = maxPolls /\ PollReplied) =>
          /\ polls * PollSleep = 300
          /\ PollEnded
          /\ (IsSnapshot(job) /\ job.status \notin {"complete", "failed"}) =>
                pollExit.fault = "PollTimeout"
          /\ job.kind = "throw" => pollExit.fault = "BackendFailure"
          /\ job = NotFoundBody => pollExit.fault = "JobNeverStarted"
          /\ job.kind = "null" => pollExit.fault = "SubmissionFailed"
    /\ pollExit.fault = "PollTimeout" =>
          polls = maxPolls /\ IsSnapshot(job) /\ pollPc = "exited"

C17_Witness ==
    /\ polls = maxPolls
    /\ queries = maxPolls
    /\ pollExit.fault = "PollTimeout"
    /\ job.status = "running"

\* C18: a failed status query before the 100th poll leaves the loop
\* running and changes neither lastMatchCount nor what has been written
\* (polls was counted before the query); a failed query on the 100th poll
\* ends the loop with BackendFailure, and so when no job snapshot was ever
\* received.
C18_FailedQueryTolerated ==
    /\ []((PollReplied /\ job.kind = "throw") =>
             /\ emittedThisPoll = 0
             /\ polls < maxPolls => (pollPc = "sleep" /\ pollExit = NoExit)
             /\ (polls = maxPolls /\ ~seenJob) =>
                   (pollPc = "exited" /\ pollExit.fault = "BackendFailure"))
    /\ [][(pollPc = "query" /\ job'.kind = "throw") =>
             UNCHANGED <<polls, lastMatchCount, out, lastSnapshot, seenJob>>]_vars

\* a query fails after two match lines were written, and the loop goes on
C18_Witness ==
    /\ PollReplied
    /\ job.kind = "throw"
    /\ polls < maxPolls
    /\ lastMatchCount = 2
    /\ pollPc = "sleep"

\* C19: a job snapshot with status "failed" ends the loop with the fault
\* Failed, reported with the error message of the job, or with "Unknown
\* backend error" when it has none; no status query follows.
C19_FailedJobEndsLoop ==
    /\ []((PollReplied /\ IsSnapshot(job) /\ job.status = "failed") =>
             /\ pollPc = "exited"
             /\ pollExit.fault = "Failed"
             /\ job.error # "" => pollExit.msg = job.error
             /\ job.error = "" => pollExit.msg = "Unknown backend error")
    /\ [][pollExit.fault = "Failed" => (queries' = queries /\ polls' = polls)]_vars

C19_Witness ==
    /\ PollReplied
    /\ job.status = "failed"
    /\ job.error = "boom"
    /\ pollExit = Exit("Failed", "boom")

\* C20: a job snapshot with status "complete" ends the loop.  Every entry
\* of that snapshot not written before is written in this iteration; a
\* well-formed result is then displayed, after the last match line, and
\* the loop is left normally; a result displayResult refuses ends the
\* command at that point instead.  No status query follows.
C20_CompleteJobEndsLoop ==
    /\ []((PollReplied /\ IsSnapshot(job) /\ job.status = "complete") =>
             /\ PollEnded
             /\ \A i \in 1..Len(job.matches) :
                   i > lastMatchCount - emittedThisPoll =>
                      \E k \in 1..Len(Emitted) :
                         /\ k > Len(Emitted) - emittedThisPoll
                         /\ Emitted[k] = MatchLine(i, job.matches[i])
             /\ job.result = "ok" =>
                   /\ pollPc = "done"
                   /\ pollExit = NoExit
                   /\ out = Emitted \o <<ResultLine(job.result)>>
             /\ job.result # "ok" =>
                   /\ pollPc = "exited"
                   /\ pollExit = displayResult(job.result)
                   /\ out = Emitted)
    /\ [][job.status = "complete" => (queries' = queries /\ polls' = polls)]_vars

\* the completing snapshot brings two entries not written before
C20_Witness ==
    /\ PollReplied
    /\ job.status = "complete"
    /\ job.result = "ok"
    /\ pollPc = "done"
    /\ Len(job.matches) = 3
    /\ emittedThisPoll = 2
    /\ out[Len(out)] = ResultLine("ok")

----------------------------------------------------------------------------
(* Properties of the submit command before the poll loop, checked under    *)
(* SpecSubmit.                                                             *)
SubmitAnswered == subPc \in {"exited", "returned", "polling"} /\ wire # NoResponse
Refused == wire.kind # "throw" /\ (wire.status >= 400 \/ wire.error # "")

\* C21: a submission answered with a status of 400 or more or with an error
\* field ends the command with a failure, without any status query and
\* without entering the poll loop; when the answer is a 429 with a
\* retry-after of s seconds, the message is the wait estimate of
\* ceil(s / 60) minutes.
C21_RateLimitEstimateSurfaced ==
    (SubmitAnswered /\ Refused) =>
       /\ subPc = "exited"
       /\ pollExit # NoExit
       /\ queries = 0
       /\ pollPc = "off"
       /\ (wire.status = 429 /\ wire.retryAfter.present) =>
              pollExit.msg = rateLimitMessage(retryMinutes(wire.retryAfter.secs))

\* C22: whatever the backend does, the poll loop ends in the end, as a
\* complete job, a failed job or another fault.
C22_PollLoopTerminates == <>PollEnded

\* C23: a command in which a fault happened ends with a non-zero exit
\* status.  For submit: every exit the command takes on a refused or failed
\* submission or out of the poll loop.  For test: a local game that ended in
\* a start fault, an engine failure or an engine timeout, recorded as
\* "error".
C23_FaultEndsNonZero ==
    /\ (subPc = "exited" \/ pollPc = "exited") => pollExit # NoExit
    /\ (testExit.ended /\ \E i \in 1..Len(results) : results[i].winner = "error") =>
           testExit.code # 0

\* C24: when the submission's response is no error and carries no job id,
\* the command takes it as the synchronous result and displays it at once:
\* it issues no status query and never sleeps, and a well-formed result is
\* the one line it shows before it returns.
C24_SynchronousResultShownDirectly ==
    (SubmitAnswered /\ ~Refused /\ wire.kind = "data" /\ ~wire.jobId) =>
       /\ queries = 0
       /\ polls = 0
       /\ pollPc = "off"
       /\ subPc \in {"returned", "exited"}
       /\ wire.result = "ok" =>
              (subPc = "returned" /\ pollExit = NoExit /\ out = <<ResultLine("ok")>>)
       /\ wire.result # "ok" => (subPc = "exited" /\ pollExit # NoExit)

C24_Witness ==
    /\ subPc = "returned"
    /\ wire.kind = "data" /\ ~wire.jobId /\ wire.status = 200
    /\ out = <<ResultLine("ok")>>

\* C25: the reply to a POST /move has status 200 and a move out of up,
\* down, left and right, whatever the body and whatever decideMove returned
\* or threw; the move is "up" unless decideMove returned one of the four,
\* and then it is the move returned.
ReturnedMove ==
    /\ wReq.body = "json"
    /\ wReq.decide.kind = "return"
    /\ wReq.decide.value.t = "string"
    /\ wReq.decide.value.s \in Moves
C25_MoveReplyAlwaysLegal ==
    (wReq.method = "POST" /\ wReq.url = "/move" /\ wRes.sent) =>
       /\ wRes.status = 200
       /\ wRes.body = "move"
       /\ wRes.move \in Moves
       /\ ~ReturnedMove => wRes.move = "up"
       /\ ReturnedMove => wRes.move = wReq.decide.value.s

C25_Witness ==
    /\ wReq.method = "POST" /\ wReq.url = "/move" /\ wRes.sent
    /\ wReq.body = "json"
    /\ wReq.decide = Decides("return", Str("straight"))
    /\ wRes.move = "up"

ArgsValid ==
    /\ subArgs.found /\ subArgs.exists
    /\ subArgs.ext \in {".py", ".js"}
    /\ subArgs.model
    /\ subArgs.codeLen <= MaxCode

C27_ParseFaultSurfacesAfterTeardown ==
    (closeArgs.seen
        /\ gameOnClose(closeArgs.code, closeArgs.stderr, closeArgs.file).kind = "throw") =>
       /\ ~crashed
       /\ pc = "done" => (completion.kind = "throw" /\ teardownCount = 1)

\* C28: a job snapshot with status "complete" received on the 100th poll
\* ends the loop as a complete job and not with PollTimeout, and one with
\* status "failed" ends it with Failed: the tests of the status come
\* before the test of the ceiling.
C28_CompleteAtCeilingIsComplete ==
    (PollReplied /\ polls = maxPolls /\ IsSnapshot(job)) =>
       /\ job.status = "complete" =>
             /\ pollExit.fault # "PollTimeout"
             /\ job.result = "ok" =>
                   (pollPc = "done" /\ pollExit = NoExit
                      /\ out[Len(out)] = ResultLine("ok"))
       /\ job.status = "failed" => pollExit.fault = "Failed"

C28_Witness ==
    /\ PollReplied
    /\ polls = maxPolls
    /\ job.status = "complete"
    /\ job.result = "ok"
    /\ pollPc = "done"
    /\ pollExit = NoExit

\* C29: there is one counter, moved once for every status query whatever
\* its result: a "Job not found" reply ends the loop with JobNeverStarted
\* exactly when it comes on poll 20 or later, so also on poll 20 after
\* nineteen failed queries, and a failed query ends it exactly on poll 100.
C29_FailuresCountTowardLimits ==
    /\ polls = queries
    /\ (PollReplied /\ job = NotFoundBody) =>
          (pollExit.fault = "JobNeverStarted" <=> polls >= NotFoundPolls)
    /\ (PollReplied /\ job = NotFoundBody /\ prevOnlyFailed /\ polls = 20) =>
          (pollPc = "exited" /\ pollExit.fault = "JobNeverStarted" /\ ~seenJob)
    /\ (PollReplied /\ job.kind = "throw") =>
          (pollExit.fault = "BackendFailure" <=> polls >= maxPolls)

\* nineteen failed queries, then "Job not found" on poll 20
C29_Witness ==
    /\ PollReplied
    /\ job = NotFoundBody
    /\ prevOnlyFailed
    /\ ~onlyNotFound
    /\ polls = 20
    /\ pollExit.fault = "JobNeverStarted"

\* C30: a job snapshot whose status is neither "complete" nor "failed"
\* does not end the loop before the ceiling; against the default backend,
\* which answers every query with status "completed", the loop is never
\* left as complete and ends with PollTimeout on poll 100 exactly.
C30_UnknownStatusGoesOn ==
    /\ (PollReplied /\ IsSnapshot(job) /\ job.status \notin {"complete", "failed"}) =>
          IF polls < maxPolls
          THEN pollPc = "sleep" /\ pollExit = NoExit
          ELSE pollPc = "exited" /\ pollExit.fault = "PollTimeout"
    /\ (PollReplied /\ onlyDefault) =>
          /\ job.status = "completed"
          /\ pollPc # "done"
          /\ pollExit.fault = "PollTimeout" <=> polls = maxPolls
          /\ out = <<>>

C30_Witness ==
    /\ PollReplied
    /\ onlyDefault
    /\ polls = maxPolls
    /\ queries = maxPolls
    /\ pollExit.fault = "PollTimeout"

\* C31: a poll that reports status "failed" writes none of the entries of
\* its snapshot: the step that receives it leaves lastMatchCount and the
\* lines written as they were, and ends the loop.
C31_FailedPollEmitsNothing ==
    [][(pollPc = "query" /\ IsSnapshot(job') /\ job'.status = "failed") =>
          /\ lastMatchCount' = lastMatchCount
          /\ out' = out
          /\ pollPc' = "exited"]_vars

\* a failed snapshot of three entries came when one had been written
C31_Witness ==
    /\ PollReplied /\ IsSnapshot(job) /\ job.status = "failed"
    /\ Len(job.matches) = 3
    /\ lastMatchCount = 1
    /\ Len(Emitted) = 1

\* C32: whatever the backend answers, a history that shrinks or is replaced
\* between polls included, no history index is written twice and the
\* indices written go strictly up; a snapshot shorter than lastMatchCount
\* writes nothing and leaves lastMatchCount where it was.
C32_IndicesStrictlyIncreasing ==
    /\ \A i, k \in 1..Len(Emitted) : i < k => Emitted[i].idx < Emitted[k].idx
    /\ lastMatchCount = Len(Emitted)
    /\ (Emitting /\ Len(job.matches) < lastMatchCount) => emittedThisPoll = 0
    /\ (Emitting /\ emittedThisPoll > 0) =>
          /\ Len(job.matches) = lastMatchCount
          /\ \A k \in 1..emittedThisPoll :
                Emitted[lastMatchCount - emittedThisPoll + k].m =
                   job.matches[lastMatchCount - emittedThisPoll + k]

\* two entries were written, then came a snapshot of one entry, another one
C32_Witness ==
    /\ ~grewOnly
    /\ Emitting
    /\ lastMatchCount = 2
    /\ Len(job.matches) = 1
    /\ job.matches[1] # Emitted[1].m
    /\ emittedThisPoll = 0

----------------------------------------------------------------------------
(* Properties of the loop of local games, checked under SpecTest.          *)
Recorded(w) == Cardinality({i \in 1..Len(results) : results[i].winner = w})

\* C33: the test command runs three local games, a fault in a game is
\* recorded as an error result and the games after it still run: when the
\* command has ended, three results are recorded and wins, losses, draws
\* and errors add up to three.
C33_ThreeGamesCounted ==
    testPc \in {"done", "crashed"} =>
       /\ Len(results) = Games
       /\ Recorded("you") + Recorded("opponent") + Recorded("draw") + Recorded("error") = 3

----------------------------------------------------------------------------
(* Properties of the waits of the runner, checked under Spec.              *)

\* C34: the first of the marker on stdout, output on stderr and the expiry
\* of the 5 s timer decides a server launch, and nothing that comes later
\* changes it: after the marker the promise stays resolved and only the
\* finally block signals the process; after stderr output it stays rejected
\* with "Server failed", a later marker notwithstanding; after the timer it
\* stays rejected with "Server start timed out".
C34_FirstEventDecidesLaunch ==
    \A s \in Sides :
        /\ srvFirst[s] = "marker" =>
              /\ srvPromise[s] = Resolved(NoValue)
              /\ srvKilled[s] = IF pc = "done" /\ procVar[s] THEN 1 ELSE 0
        /\ srvFirst[s] = "stderr" =>
              /\ srvPromise[s].st = "rejected"
              /\ srvPromise[s].error.name = "Server failed"
        /\ srvFirst[s] = "timer" =>
              srvPromise[s] = Rejected(Err("Server start timed out", ""))

\* the user's server wrote to stderr and then the marker; the opponent's
\* server wrote the marker, and its timer has expired since
C34_Witness ==
    /\ srvFirst["user"] = "stderr" /\ started["user"]
    /\ srvPromise["user"].st = "rejected"
    /\ srvFirst["opp"] = "marker" /\ srvTimer["opp"].st = "fired"
    /\ srvPromise["opp"].st = "resolved" /\ srvKilled["opp"] = 0

\* C35: whichever of the game's 'close' and the expiry of the 30 s timer
\* comes first decides what the wait for the game gives.  The timer is not
\* cancelled: it expires after a close too, and the value or failure the
\* close gave stays; a close that comes after the expiry leaves the call
\* throwing "Game timed out".
C35_FirstOfCloseAndTimerDecides ==
    LET h == gameOnClose(closeArgs.code, closeArgs.stderr, closeArgs.file)
    IN /\ gameTimer.st \in {"unset", "armed", "fired"}
       /\ (gameTimer.st = "armed" /\ ~crashed) => now <= gameTimer.at
       /\ (gameFirst = "close" /\ h.kind = "resolve") =>
             /\ gamePromise = Resolved(h.value)
             /\ pc \in {"finally", "done"} =>
                   completion = [kind |-> "return", value |-> h.value, error |-> NoErr]
       /\ (gameFirst = "close" /\ h.kind = "reject") =>
             /\ gamePromise = Rejected(h.error)
             /\ pc \in {"finally", "done"} =>
                   completion = [kind |-> "throw", value |-> NoValue, error |-> h.error]
       /\ gameFirst = "timer" =>
             /\ gamePromise = Rejected(Err("Game timed out", ""))
             /\ pc \in {"finally", "done"} => Threw("Game timed out")

\* the game closed with a result, the call returned it, and the timer has
\* expired since
C35_Witness ==
    /\ gameFirst = "close"
    /\ gameTimer.st = "fired"
    /\ gamePromise.st = "resolved"
    /\ pc = "done"
    /\ completion.kind = "return"
    /\ completion.value.winner = "you"

----------------------------------------------------------------------------
(* The lineage file of submit, checked under SpecSubmit.                   *)

\* C36: the lineage file is deleted only once a final result was displayed,
\* the synchronous one or that of a complete job: the command has come to
\* its end without a failure and the result is the last line it wrote.  On
\* every path that ends in a failure the file is as it was.
C36_ParentDeletedOnlyAfterResult ==
    /\ parentFile = "deleted" =>
          /\ subPc = "returned" \/ pollPc = "done"
          /\ pollExit = NoExit
          /\ out # <<>>
          /\ out[Len(out)].kind = "result"
    /\ (subPc = "exited" \/ pollPc = "exited") => parentFile # "deleted"

\* a complete job was displayed after polling and the file is gone
C36_Witness ==
    /\ parentFile = "deleted"
    /\ pollPc = "done"
    /\ queries >= 2
    /\ out[Len(out)] = ResultLine("ok")

====
